---- MODULE Spec2Model ----
(***************************************************************************)
(* The recording / upload / submission session of the Voice to SFX page    *)
(* (src/src/App.jsx).  The file holds two revisions of the App component:  *)
(* the tabbed one (lines 6-251, variant 1) and the single-panel one (lines *)
(* 264-544, variant 2).  One of them is mounted; `variant` says which.     *)
(*                                                                         *)
(* Every handler of the component is one action.  The two suspension       *)
(* points of the code (await getUserMedia, await axios.post) split their   *)
(* handlers into the part before the await and the continuation.  The      *)
(* browser objects the handlers create (streams, MediaRecorders, interval  *)
(* timers, HTTP requests) are part of the state.                           *)
(*                                                                         *)
(* The hooks `dragging` and `activeTab` are written by the handlers and    *)
(* read by the markup only (a CSS class, the visible tab): they are        *)
(* presentation, not session state, and are not modelled.                  *)
(***************************************************************************)
EXTENDS Integers, Sequences, FiniteSets, TLC

\* ------------------------------------------------------------ bounds
\* startRecording invocations that obtain a stream or are still pending
MaxStarts == 1
\* requests awaiting their response at one time
MaxRequests == 2
\* cap on the recordingTime counter
MaxTime == 1

\* mediaRecorder.start() is called without a timeslice: a recorder hands
\* over what it captured in one dataavailable event, when it is stopped
ChunksPerRecorder == 1

VARIABLES
    variant,          \* which App revision is mounted (1 or 2)
    mounted,          \* the component is mounted (its state hooks are live)
    projectName,      \* useState('')
    audioFile,        \* useState(null)
    loading,          \* useState(false)
    results,          \* useState(null)
    error,            \* useState(null)
    isRecording,      \* useState(false)
    recordingTime,    \* useState(0)
    recordedBlob,     \* useState(null)
    mediaRecorderRef, \* useRef(null): 0, or the index of a recorder in recs
    chunksRef,        \* useRef([]): sequence of chunks (Blobs)
    timerRef,         \* useRef(null): 0, or an interval id
    pendingStarts,    \* startRecording invocations suspended in getUserMedia
    recs,             \* the streams granted so far, each with its recorder
    timers,           \* the interval timers that are running
    requests          \* the POST requests awaiting their response

vars == <<variant, mounted, projectName, audioFile, loading, results, error,
          isRecording, recordingTime, recordedBlob, mediaRecorderRef,
          chunksRef, timerRef, pendingStarts, recs, timers, requests>>

\* ------------------------------------------------------------ values
\* JavaScript null for object-valued state, and for the error string
Null == [kind |-> "null"]
NoError == "<null>"
Undefined == "<undefined>"

\* MIME types are character sequences, so that startsWith is computed
AudioSlash == <<"a","u","d","i","o","/">>
TypeWav == AudioSlash \o <<"w","a","v">>
TypeWebm == AudioSlash \o <<"w","e","b","m">>
TypePng == <<"i","m","a","g","e","/","p","n","g">>
TypeVideo == <<"v","i","d","e","o","/","m","p","4">>
TypeUnknown == <<>>

MkFile(name, type, data) ==
    [kind |-> "file", name |-> name, type |-> type, data |-> data]

\* what the user can pick or drop: files[0] may be undefined (Null)
WavFile == MkFile("take.wav", TypeWav, <<"w">>)
PickableFiles ==
    { Null,
      WavFile,
      MkFile("cover.png", TypePng, <<"p">>),
      MkFile("notes", TypeUnknown, <<"n">>),
      MkFile("clip.mp4", TypeVideo, <<"v">>) }

ProjectNames == {"", "laser_shot_v1"}

\* String.prototype.startsWith
StartsWith(s, prefix) ==
    /\ Len(s) >= Len(prefix)
    /\ SubSeq(s, 1, Len(prefix)) = prefix

\* the check with its type test left out: `file` alone
IsAudioFile_AnyFile(file) == file # Null

\* `file && file.type.startsWith('audio/')`
IsAudioFile(file) ==
    /\ file # Null
    /\ StartsWith(file.type, AudioSlash)

\* the messages of the two revisions
PickerMsg == "Please select a valid audio file"
DropMsg == "Please drop a valid audio file"
MicMsg ==
    IF variant = 1 THEN "Microphone access denied. Check permissions."
    ELSE "Could not access microphone. Please check permissions."
SubmitMsg ==
    IF variant = 1 THEN "Add a project name and audio source"
    ELSE "Please provide both project name and audio file"
FallbackMsg ==
    IF variant = 1 THEN "Failed to process audio."
    ELSE "Failed to process audio. Please try again."

\* A state setter of an unmounted component does nothing
SetState(cur, new) == IF mounted THEN new ELSE cur

\* ------------------------------------------------------------ Init
Init ==
    /\ variant \in {1, 2}
    /\ mounted = TRUE
    /\ projectName = ""
    /\ audioFile = Null
    /\ loading = FALSE
    /\ results = Null
    /\ error = NoError
    /\ isRecording = FALSE
    /\ recordingTime = 0
    /\ recordedBlob = Null
    /\ mediaRecorderRef = 0
    /\ chunksRef = <<>>
    /\ timerRef = 0
    /\ pendingStarts = 0
    /\ recs = <<>>
    /\ timers = {}
    /\ requests = <<>>

\* ------------------------------------------------------------ inputs
\* onChange of the project name input
SetProjectName ==
    /\ mounted
    /\ \E v \in ProjectNames : projectName' = v
    /\ UNCHANGED <<variant, mounted, audioFile, loading, results, error,
                   isRecording, recordingTime, recordedBlob,
                   mediaRecorderRef, chunksRef, timerRef, pendingStarts,
                   recs, timers, requests>>

\* handleFileChange without its setError(null)
FileChange_KeepsError(file) ==
    /\ IF IsAudioFile(file)
       THEN /\ audioFile' = file
            /\ recordedBlob' = IF variant = 1 THEN Null ELSE recordedBlob
            /\ UNCHANGED error
       ELSE /\ error' = PickerMsg
            /\ UNCHANGED <<audioFile, recordedBlob>>
    /\ UNCHANGED <<variant, mounted, projectName, loading, results,
                   isRecording, recordingTime, mediaRecorderRef, chunksRef,
                   timerRef, pendingStarts, recs, timers, requests>>

\* handleFileChange, for the file the picker reports
FileChange(file) ==
    /\ IF IsAudioFile(file)
       THEN /\ audioFile' = file
            /\ recordedBlob' = IF variant = 1 THEN Null ELSE recordedBlob
            /\ error' = NoError
       ELSE /\ error' = PickerMsg
            /\ UNCHANGED <<audioFile, recordedBlob>>
    /\ UNCHANGED <<variant, mounted, projectName, loading, results,
                   isRecording, recordingTime, mediaRecorderRef, chunksRef,
                   timerRef, pendingStarts, recs, timers, requests>>

HandleFileChange ==
    /\ mounted
    /\ \E file \in PickableFiles : FileChange(file)

\* handleDrop, for the file the drop event carries
Drop(file) ==
    /\ IF IsAudioFile(file)
       THEN /\ audioFile' = file
            /\ recordedBlob' = Null
            /\ error' = NoError
       ELSE /\ error' = DropMsg
            /\ UNCHANGED <<audioFile, recordedBlob>>
    /\ UNCHANGED <<variant, mounted, projectName, loading, results,
                   isRecording, recordingTime, mediaRecorderRef, chunksRef,
                   timerRef, pendingStarts, recs, timers, requests>>

HandleDrop ==
    /\ mounted
    /\ \E file \in PickableFiles : Drop(file)

\* ------------------------------------------------------------ recording
\* one captured byte: the recorder it came from and the chunk it belongs to
ChunkData(r, n, size) == [i \in 1..size |-> <<r, n>>]

\* the sizes a dataavailable event can carry
ChunkSizes == {0, 2}

RECURSIVE ConcatData(_)
ConcatData(parts) ==
    IF parts = <<>> THEN <<>>
    ELSE Head(parts).data \o ConcatData(Tail(parts))

\* new Blob(parts, { type }): the bytes of the parts, in order
MkBlob(parts, type) ==
    [kind |-> "blob", type |-> type, data |-> ConcatData(parts)]

\* new File([blob], name, { type })
FileOfBlob(blob, name, type) == MkFile(name, type, ConcatData(<<blob>>))

\* a granted stream and the MediaRecorder built on it
\*   state: "none" (constructor threw), "inactive" (start() threw),
\*          "recording", "stopping" (stop() called, stop event queued),
\*          "stopped"
\*   delivered: dataavailable events fired; released: times its tracks
\*   were stopped
MkRec(state) ==
    [stream |-> "live", state |-> state, delivered |-> 0, released |-> 0]

\* startRecording up to its await: the permission prompt is pending
StartRecording ==
    /\ mounted
    /\ Len(recs) + pendingStarts < MaxStarts
    /\ pendingStarts' = pendingStarts + 1
    /\ UNCHANGED <<variant, mounted, projectName, audioFile, loading,
                   results, error, isRecording, recordingTime, recordedBlob,
                   mediaRecorderRef, chunksRef, timerRef, recs, timers,
                   requests>>

\* startRecording invoked once more, when the invocations made so far have
\* used up MaxStarts: a second recording cycle, or a second click while the
\* permission prompt of the first is still open
StartRecordingAgain ==
    /\ mounted
    /\ Len(recs) + pendingStarts = MaxStarts
    /\ pendingStarts' = pendingStarts + 1
    /\ UNCHANGED <<variant, mounted, projectName, audioFile, loading,
                   results, error, isRecording, recordingTime, recordedBlob,
                   mediaRecorderRef, chunksRef, timerRef, recs, timers,
                   requests>>

GetUserMediaRejected_Silent ==
    /\ pendingStarts > 0
    /\ pendingStarts' = pendingStarts - 1
    /\ UNCHANGED <<variant, mounted, projectName, audioFile, loading,
                   results, error, isRecording, recordingTime, recordedBlob,
                   mediaRecorderRef, chunksRef, timerRef, recs, timers,
                   requests>>

\* getUserMedia rejects: the catch block
GetUserMediaRejected ==
    /\ pendingStarts > 0
    /\ pendingStarts' = pendingStarts - 1
    /\ error' = SetState(error, MicMsg)
    /\ UNCHANGED <<variant, mounted, projectName, audioFile, loading,
                   results, isRecording, recordingTime, recordedBlob,
                   mediaRecorderRef, chunksRef, timerRef, recs, timers,
                   requests>>

Granted_KeepsError(outcome) ==
    LET r == Len(recs) + 1 IN
    /\ pendingStarts' = pendingStarts - 1
    /\ CASE outcome = "ctorThrows" ->
              /\ recs' = Append(recs, MkRec("none"))
              /\ error' = SetState(error, MicMsg)
              /\ UNCHANGED <<mediaRecorderRef, chunksRef, isRecording,
                             recordingTime, timerRef, timers>>
         [] outcome = "startThrows" ->
              /\ recs' = Append(recs, MkRec("inactive"))
              /\ mediaRecorderRef' = r
              /\ chunksRef' = <<>>
              /\ error' = SetState(error, MicMsg)
              /\ UNCHANGED <<isRecording, recordingTime, timerRef, timers>>
         [] outcome = "ok" ->
              /\ recs' = Append(recs, MkRec("recording"))
              /\ mediaRecorderRef' = r
              /\ chunksRef' = <<>>
              /\ isRecording' = SetState(isRecording, TRUE)
              /\ recordingTime' = SetState(recordingTime, 0)
              /\ error' = error
              /\ timerRef' = r
              /\ timers' = timers \cup {r}
    /\ UNCHANGED <<variant, mounted, projectName, audioFile, loading,
                   results, recordedBlob, requests>>

\* getUserMedia resolves with a stream: the rest of the try block.
\*   outcome "ctorThrows":  new MediaRecorder(stream) throws
\*   outcome "startThrows": mediaRecorder.start() throws
\*   outcome "ok":          the try block runs to its end
Granted(outcome) ==
    LET r == Len(recs) + 1 IN
    /\ pendingStarts' = pendingStarts - 1
    /\ CASE outcome = "ctorThrows" ->
              /\ recs' = Append(recs, MkRec("none"))
              /\ error' = SetState(error, MicMsg)
              /\ UNCHANGED <<mediaRecorderRef, chunksRef, isRecording,
                             recordingTime, timerRef, timers>>
         [] outcome = "startThrows" ->
              /\ recs' = Append(recs, MkRec("inactive"))
              /\ mediaRecorderRef' = r
              /\ chunksRef' = <<>>
              /\ error' = SetState(error, MicMsg)
              /\ UNCHANGED <<isRecording, recordingTime, timerRef, timers>>
         [] outcome = "ok" ->
              /\ recs' = Append(recs, MkRec("recording"))
              /\ mediaRecorderRef' = r
              /\ chunksRef' = <<>>
              /\ isRecording' = SetState(isRecording, TRUE)
              /\ recordingTime' = SetState(recordingTime, 0)
              /\ error' = SetState(error, NoError)
              /\ timerRef' = r
              /\ timers' = timers \cup {r}
    /\ UNCHANGED <<variant, mounted, projectName, audioFile, loading,
                   results, recordedBlob, requests>>

GetUserMediaResolved ==
    /\ pendingStarts > 0
    /\ \E outcome \in {"ctorThrows", "startThrows", "ok"} : Granted(outcome)

\* mediaRecorder.ondataavailable of recorder r
DataAvailable(r, size) ==
    /\ recs[r].state = "stopping"
    /\ recs[r].delivered < ChunksPerRecorder
    /\ recs' = [recs EXCEPT ![r].delivered = @ + 1]
    /\ chunksRef' =
          IF size > 0
          THEN Append(chunksRef,
                      [kind |-> "blob", type |-> TypeWebm,
                       data |-> ChunkData(r, recs[r].delivered + 1, size)])
          ELSE chunksRef
    /\ UNCHANGED <<variant, mounted, projectName, audioFile, loading,
                   results, error, isRecording, recordingTime, recordedBlob,
                   mediaRecorderRef, timerRef, pendingStarts, timers,
                   requests>>

OnDataAvailable ==
    \E r \in 1..Len(recs) : \E size \in ChunkSizes : DataAvailable(r, size)

\* mediaRecorder.onstop of recorder r, queued by its stop()
Stopped(r) ==
    LET blob == MkBlob(chunksRef, TypeWebm)
        file == FileOfBlob(blob, "recording.webm", TypeWebm)
    IN
    /\ recordedBlob' = SetState(recordedBlob, blob)
    /\ audioFile' = SetState(audioFile, file)
    /\ recs' = [recs EXCEPT ![r].state = "stopped",
                            ![r].stream = "stopped",
                            ![r].released = @ + 1]
    /\ UNCHANGED <<variant, mounted, projectName, loading, results, error,
                   isRecording, recordingTime, mediaRecorderRef, chunksRef,
                   timerRef, pendingStarts, timers, requests>>

OnStop ==
    \E r \in 1..Len(recs) :
        /\ recs[r].state = "stopping"
        /\ Stopped(r)

\* the interval callback of a running timer
Tick ==
    /\ mounted
    /\ \E t \in timers :
        /\ recordingTime < MaxTime
        /\ recordingTime' = recordingTime + 1
    /\ UNCHANGED <<variant, mounted, projectName, audioFile, loading,
                   results, error, isRecording, recordedBlob,
                   mediaRecorderRef, chunksRef, timerRef, pendingStarts,
                   recs, timers, requests>>

StopRecording_NoGuard ==
    /\ mounted
    /\ IF mediaRecorderRef # 0
       THEN /\ recs' = [recs EXCEPT ![mediaRecorderRef].state = "stopping"]
            /\ isRecording' = FALSE
            /\ timers' = timers \ {timerRef}
       ELSE UNCHANGED <<recs, isRecording, timers>>
    /\ UNCHANGED <<variant, mounted, projectName, audioFile, loading,
                   results, error, recordingTime, recordedBlob,
                   mediaRecorderRef, chunksRef, timerRef, pendingStarts,
                   requests>>

\* stopRecording.  MediaRecorder.stop() on a recorder that is not recording
\* either throws InvalidStateError (the handler ends there) or does nothing,
\* depending on the browser.
StopRecording ==
    /\ mounted
    /\ IF mediaRecorderRef # 0 /\ isRecording
       THEN \/ /\ recs[mediaRecorderRef].state = "recording"
               /\ recs' = [recs EXCEPT ![mediaRecorderRef].state = "stopping"]
               /\ isRecording' = FALSE
               /\ timers' = timers \ {timerRef}
            \/ /\ recs[mediaRecorderRef].state # "recording"
               /\ \E throws \in BOOLEAN :
                    IF throws
                    THEN UNCHANGED <<recs, isRecording, timers>>
                    ELSE /\ isRecording' = FALSE
                         /\ timers' = timers \ {timerRef}
                         /\ UNCHANGED recs
       ELSE UNCHANGED <<recs, isRecording, timers>>
    /\ UNCHANGED <<variant, mounted, projectName, audioFile, loading,
                   results, error, recordingTime, recordedBlob,
                   mediaRecorderRef, chunksRef, timerRef, pendingStarts,
                   requests>>

\* The component is torn down: the cleanup of the mount effect runs, and
\* React discards the state hooks (they read as their initial values from
\* then on; the refs, browser objects and pending continuations live on).
Unmount ==
    /\ mounted
    /\ mounted' = FALSE
    /\ timers' = IF timerRef # 0 THEN timers \ {timerRef} ELSE timers
    /\ projectName' = ""
    /\ audioFile' = Null
    /\ loading' = FALSE
    /\ results' = Null
    /\ error' = NoError
    /\ isRecording' = FALSE
    /\ recordingTime' = 0
    /\ recordedBlob' = Null
    /\ UNCHANGED <<variant, mediaRecorderRef, chunksRef, timerRef,
                   pendingStarts, recs, requests>>

\* ------------------------------------------------------------ submission
\* what the service can answer
ResultTwo ==
    [interpretation |-> [suggested_name |-> "laser_hit",
                         prompt |-> "a sharp metallic laser impact"],
     assets |-> <<"https://x/1.wav", "https://x/2.wav">>]
ResultNone ==
    [interpretation |-> [suggested_name |-> "thud", prompt |-> "a dull thud"],
     assets |-> <<>>]

\* an axios error: err.response, err.response.data and data.detail may each
\* be missing
MkErr(hasResponse, hasData, detail) ==
    [kind |-> "err", hasResponse |-> hasResponse, hasData |-> hasData,
     detail |-> detail]

Responses ==
    { [kind |-> "ok", data |-> ResultTwo],
      [kind |-> "ok", data |-> ResultNone],
      MkErr(FALSE, FALSE, Undefined),          \* network error, no response
      MkErr(TRUE, FALSE, Undefined),           \* HTTP 500 with no body
      MkErr(TRUE, TRUE, ""),                   \* HTTP 500, detail is ""
      MkErr(TRUE, TRUE, "model overloaded") }  \* HTTP 500 with a detail

\* err.response?.data?.detail
Detail(err) ==
    IF ~err.hasResponse THEN Undefined
    ELSE IF ~err.hasData THEN Undefined
    ELSE err.detail

\* a || b on strings: undefined and "" are falsy
OrElse(a, b) == IF a \in {Undefined, ""} THEN b ELSE a

\* err.response?.data?.detail || '<fallback>'
FailureMessage(err) == OrElse(Detail(err), FallbackMsg)

\* the cards rendered by results.assets.map((url, i) => ...)
RenderedAssets(res) ==
    [i \in 1..Len(res.assets) |-> [label |-> i, src |-> res.assets[i]]]

\* a FormData whose project_name field is never appended
MkRequest_NoProject(project, audio) == [project |-> "", audio |-> audio]

\* the request axios.post sends: the two FormData fields
MkRequest(project, audio) == [project |-> project, audio |-> audio]

\* sequence s without its i-th element
RemoveAt(s, i) == SubSeq(s, 1, i - 1) \o SubSeq(s, i + 1, Len(s))

\* handleSubmit with a precondition that tests the project name only
HandleSubmit_NoAudioCheck ==
    /\ mounted
    /\ IF projectName = ""
       THEN /\ error' = SubmitMsg
            /\ UNCHANGED <<loading, results, requests>>
       ELSE /\ Len(requests) < MaxRequests
            /\ loading' = TRUE
            /\ error' = NoError
            /\ results' = Null
            /\ requests' = Append(requests, MkRequest(projectName, audioFile))
    /\ UNCHANGED <<variant, mounted, projectName, audioFile, isRecording,
                   recordingTime, recordedBlob, mediaRecorderRef, chunksRef,
                   timerRef, pendingStarts, recs, timers>>

\* handleSubmit up to its await
HandleSubmit ==
    /\ mounted
    /\ IF projectName = "" \/ audioFile = Null
       THEN /\ error' = SubmitMsg
            /\ UNCHANGED <<loading, results, requests>>
       ELSE /\ Len(requests) < MaxRequests
            /\ loading' = TRUE
            /\ error' = NoError
            /\ results' = Null
            /\ requests' = Append(requests, MkRequest(projectName, audioFile))
    /\ UNCHANGED <<variant, mounted, projectName, audioFile, isRecording,
                   recordingTime, recordedBlob, mediaRecorderRef, chunksRef,
                   timerRef, pendingStarts, recs, timers>>

Settle_Retries(i, resp) ==
    /\ IF resp.kind = "ok"
       THEN /\ results' = SetState(results, resp.data)
            /\ loading' = SetState(loading, FALSE)
            /\ requests' = RemoveAt(requests, i)
            /\ UNCHANGED error
       ELSE /\ requests' = Append(RemoveAt(requests, i), requests[i])
            /\ UNCHANGED <<results, error, loading>>
    /\ UNCHANGED <<variant, mounted, projectName, audioFile, isRecording,
                   recordingTime, recordedBlob, mediaRecorderRef, chunksRef,
                   timerRef, pendingStarts, recs, timers>>

\* the continuation of handleSubmit for request i, once axios.post settles
Settle(i, resp) ==
    /\ IF resp.kind = "ok"
       THEN /\ results' = SetState(results, resp.data)
            /\ UNCHANGED error
       ELSE /\ error' = SetState(error, FailureMessage(resp))
            /\ UNCHANGED results
    /\ loading' = SetState(loading, FALSE)
    /\ requests' = RemoveAt(requests, i)
    /\ UNCHANGED <<variant, mounted, projectName, audioFile, isRecording,
                   recordingTime, recordedBlob, mediaRecorderRef, chunksRef,
                   timerRef, pendingStarts, recs, timers>>

Respond ==
    \E i \in 1..Len(requests) : \E resp \in Responses : Settle(i, resp)

Next ==
    \/ SetProjectName
    \/ HandleFileChange
    \/ HandleDrop
    \/ StartRecording
    \/ GetUserMediaRejected
    \/ GetUserMediaResolved
    \/ OnDataAvailable
    \/ OnStop
    \/ Tick
    \/ StopRecording
    \/ Unmount
    \/ HandleSubmit
    \/ Respond

Spec == Init /\ [][Next]_vars

\* the same session with one more startRecording invocation
NextConcurrent ==
    \/ Next
    \/ StartRecordingAgain

SpecConcurrent == Init /\ [][NextConcurrent]_vars

\* ------------------------------------------------------------ claims
\* the steps the claims speak about
ValidSubmit == HandleSubmit /\ projectName # "" /\ audioFile # Null
InvalidSubmit == HandleSubmit /\ (projectName = "" \/ audioFile = Null)
AcceptedFiles == {file \in PickableFiles : IsAudioFile(file)}
FileChosen ==
    /\ mounted
    /\ \E file \in AcceptedFiles : FileChange(file) \/ Drop(file)
RecordingStarts == mounted /\ pendingStarts > 0 /\ Granted("ok")

\* the part of a media type before its first "/"
RECURSIVE MajorType(_)
MajorType(type) ==
    IF type = <<>> \/ Head(type) = "/" THEN <<>>
    ELSE <<Head(type)>> \o MajorType(Tail(type))
IndicatesAudio(file) == MajorType(file.type) = <<"a","u","d","i","o">>
NonAudioFiles == {file \in PickableFiles \ {Null} : ~IndicatesAudio(file)}

\* C1: a submit invoked while an earlier request is unanswered issues no
\* second request: at most one request is outstanding in every state.
C1_AtMostOneOutstanding == Len(requests) <= 1

\* C2: a submit with an empty project name or without an audio source sets
\* the error message, issues no request, does not enter InFlight and leaves
\* result, projectName and audioSource as they were.
C2_InvalidSubmitSendsNothing ==
    [][InvalidSubmit =>
        /\ error' = SubmitMsg
        /\ requests' = requests
        /\ loading' = loading
        /\ results' = results
        /\ projectName' = projectName
        /\ audioFile' = audioFile
        /\ recordedBlob' = recordedBlob]_vars

\* an invalid submit has acted with an audio source present and no name:
\* its message is shown and nothing is in flight
C2_Witness ==
    /\ error = SubmitMsg
    /\ projectName = ""
    /\ audioFile # Null
    /\ requests = <<>>
    /\ ~loading

\* C3: a file whose media type does not indicate audio, given to the picker
\* or dropped, sets an error message and leaves the uploaded file and the
\* recorded clip as they were.
C3_NonAudioRejected ==
    [][\A file \in NonAudioFiles :
        /\ (mounted /\ FileChange(file)) =>
                /\ error' = PickerMsg
                /\ audioFile' = audioFile
                /\ recordedBlob' = recordedBlob
        /\ (mounted /\ Drop(file)) =>
                /\ error' = DropMsg
                /\ audioFile' = audioFile
                /\ recordedBlob' = recordedBlob]_vars

\* a non-audio file was rejected, its message is shown, and the recorded
\* clip is the audio source
C3_Witness ==
    /\ error \in {PickerMsg, DropMsg}
    /\ recordedBlob # Null
    /\ audioFile = FileOfBlob(recordedBlob, "recording.webm", TypeWebm)

\* C4: the recorded-clip marker is set only while the audio payload is that
\* recording; a chosen file clears it.
C4_ClipAndFileExclusive ==
    recordedBlob # Null =>
        audioFile = FileOfBlob(recordedBlob, "recording.webm", TypeWebm)

\* C5: every stream a startRecording obtained is released exactly once:
\* never twice, and released once no invocation is pending and no recorder
\* is recording or about to fire its stop event.
C5_StreamsReleasedExactlyOnce ==
    \A r \in 1..Len(recs) :
        /\ recs[r].released <= 1
        /\ ( /\ pendingStarts = 0
             /\ \A q \in 1..Len(recs) :
                    recs[q].state \notin {"recording", "stopping"} )
           => (recs[r].stream = "stopped" /\ recs[r].released = 1)

\* C6: after teardown no stream of a recorder that went recording is still
\* held, and no tick timer is running.
C6_TeardownReleasesCapture ==
    ~mounted =>
        /\ \A r \in 1..Len(recs) :
              recs[r].state \in {"recording", "stopping", "stopped"}
                  => recs[r].stream = "stopped"
        /\ timers = {}

\* C7: while a submission is in flight the audio source does not change.
C7_NoSourceChangeWhileInFlight ==
    [][(mounted /\ mounted' /\ loading) => audioFile' = audioFile]_vars

\* C8 as stated: a recording that starts, a file that is chosen and a valid
\* submit each clear both the previous result and the previous error.
C8_ResultAndErrorCleared ==
    [][(RecordingStarts \/ FileChosen \/ ValidSubmit) =>
        (results' = Null /\ error' = NoError)]_vars

\* C8 amended: each of the three events clears the error; only a valid submit
\* clears the result, a starting recording and a chosen file leave it.
C8_ErrorClearedResultBySubmitOnly ==
    [][ /\ ValidSubmit => (error' = NoError /\ results' = Null)
        /\ (RecordingStarts \/ FileChosen) =>
              (error' = NoError /\ results' = results) ]_vars

\* a recording is running, no error is shown, and the result of an earlier
\* submission is still present although nothing is in flight
C8_Witness ==
    /\ isRecording
    /\ error = NoError
    /\ results # Null
    /\ requests = <<>>

\* a detail the user can read, or none at all
HasDetail(resp) == Detail(resp) \notin {Undefined, ""}
NoDetail(resp) == Detail(resp) = Undefined

\* C9: a failed request leaves the result absent and the in-flight flag
\* cleared, and the message is the server's detail when there is one, the
\* fallback string when there is none.
C9_FailureEndsInFailed ==
    [][\A i \in 1..Len(requests) : \A resp \in Responses :
        (mounted /\ resp.kind = "err" /\ Settle(i, resp)) =>
            /\ results' = Null
            /\ loading' = FALSE
            /\ HasDetail(resp) => error' = resp.detail
            /\ NoDetail(resp) => error' = FallbackMsg]_vars

\* C10: a successful request leaves the result equal to the response, its
\* assets rendered in the order returned, no error message and the in-flight
\* flag cleared.
C10_SuccessEndsInSucceeded ==
    [][\A i \in 1..Len(requests) : \A resp \in Responses :
        (mounted /\ resp.kind = "ok" /\ Settle(i, resp)) =>
            /\ results' = resp.data
            /\ \A k \in 1..Len(resp.data.assets) :
                  RenderedAssets(results')[k].src = resp.data.assets[k]
            /\ error' = NoError
            /\ loading' = FALSE]_vars
\* the clips recorder r can have handed over in its first n dataavailable
\* events: its chunks, each of one of the sizes, in the order delivered
RECURSIVE OwnClips(_, _)
OwnClips(r, n) ==
    IF n = 0 THEN {<<>>}
    ELSE {head \o ChunkData(r, n, size) :
            head \in OwnClips(r, n - 1), size \in ChunkSizes}

\* C11: the clip finalized by a recorder's stop event consists of the chunks
\* that recorder delivered, in arrival order, and of nothing else.
C11_ClipIsOwnChunks ==
    [][\A r \in 1..Len(recs) :
        (mounted /\ recs[r].state = "stopping" /\ Stopped(r)) =>
            /\ recordedBlob'.data \in OwnClips(r, recs[r].delivered)
            /\ audioFile'.data = recordedBlob'.data]_vars
C13_StopWhenNotRecordingIsNoOp ==
    [][(StopRecording /\ ~isRecording) => UNCHANGED vars]_vars

\* stopRecording has something it could disturb while nothing is recording:
\* the ref names a recorder that has stopped and whose clip is the audio
C13_Witness ==
    /\ mounted /\ ~isRecording
    /\ mediaRecorderRef # 0 /\ recs[mediaRecorderRef].state = "stopped"
    /\ recordedBlob # Null /\ audioFile # Null
\* startRecording invocations that are waiting for the permission prompt or
\* whose recorder is recording
ActiveStarts ==
    pendingStarts
    + Cardinality({r \in 1..Len(recs) : recs[r].state = "recording"})

LiveStreams == {r \in 1..Len(recs) : recs[r].stream = "live"}

\* C14: at most one startRecording invocation is pending or active at any
\* time, so at most one recorder records, at most one microphone stream is
\* live and at most one tick timer runs.
C14_AtMostOneStart ==
    /\ ActiveStarts <= 1
    /\ Cardinality(LiveStreams) <= 1
    /\ Cardinality(timers) <= 1
\* C15: a tick is taken only while recording and adds one second; while
\* the session is not recording no tick timer runs, and the elapsed seconds
\* change only by the next granted startRecording.
C15_TicksOnlyWhileRecording ==
    [][/\ Tick => (isRecording /\ recordingTime' = recordingTime + 1)
       /\ (mounted' /\ ~isRecording') => timers' = {}
       /\ (mounted /\ mounted' /\ ~isRecording
              /\ recordingTime' # recordingTime) => RecordingStarts]_vars
\* a startRecording invocation ends in its catch block: access is denied or
\* no device is found (getUserMedia rejects), or the granted device fails
\* when the recorder is built or started
StartFails ==
    /\ mounted
    /\ pendingStarts > 0
    /\ \/ GetUserMediaRejected
       \/ Granted("ctorThrows")
       \/ Granted("startThrows")

\* C16: a startRecording that fails sets the microphone error and leaves the
\* session as it was: not recording, no recorder recording, no timer
\* started, elapsed seconds and audio source unchanged.
C16_FailedStartOnlySetsError ==
    [][StartFails =>
        /\ error' = MicMsg
        /\ isRecording' = isRecording
        /\ recordingTime' = recordingTime
        /\ audioFile' = audioFile /\ recordedBlob' = recordedBlob
        /\ timers' = timers /\ timerRef' = timerRef
        /\ \A r \in 1..Len(recs') :
              recs'[r].state = "recording" =>
                  (r <= Len(recs) /\ recs[r].state = "recording")]_vars

\* access was denied with a file chosen: the error shows, the session is
\* idle with no recorder and no timer, and the file is still the audio
C16_Witness ==
    /\ mounted /\ error = MicMsg /\ pendingStarts = 0
    /\ ~isRecording /\ recordingTime = 0
    /\ recs = <<>> /\ timers = {}
    /\ audioFile = WavFile
\* the session holds a finalized clip and that clip is the audio source
HoldsClip ==
    /\ recordedBlob # Null
    /\ audioFile # Null
    /\ audioFile.name = "recording.webm"

\* C17: a startRecording granted while a finalized clip is held discards the
\* clip, and while the new recording runs the previous clip is not the audio
\* source, so no request can be issued with it.
C17_StartDiscardsPreviousClip ==
    [][/\ (RecordingStarts /\ HoldsClip) =>
              (recordedBlob' = Null /\ audioFile' = Null)
       /\ (mounted /\ isRecording /\ HoldsClip) =>
              Len(requests') <= Len(requests)]_vars
\* C18: a valid submit raises the in-flight flag and issues one request; an
\* answer takes the session out of InFlight by exactly one of the two
\* continuations (success stores the results, failure stores the message),
\* clears the flag and retires the request without issuing another; a
\* request is issued by a valid submit invocation and by nothing else.
C18_OneRequestPerValidSubmit ==
    [][/\ Len(requests') > Len(requests) => ValidSubmit
       /\ ValidSubmit => (loading' /\ Len(requests') = Len(requests) + 1)
       /\ (mounted /\ Respond) =>
            /\ ~loading'
            /\ Len(requests') = Len(requests) - 1
            /\ \E resp \in Responses :
                 \/ /\ resp.kind = "ok"
                    /\ results' = resp.data /\ error' = error
                 \/ /\ resp.kind # "ok"
                    /\ error' = FailureMessage(resp) /\ results' = results
       ]_vars

\* a failure has been answered and nothing was sent again: the message
\* shows, no request is outstanding, and the inputs are still in place for
\* the user to submit again
C18_Witness ==
    /\ mounted /\ ~loading /\ requests = <<>>
    /\ error = FallbackMsg /\ results = Null
    /\ projectName # "" /\ audioFile # Null
\* stopRecording has returned for the recorder the ref names and the
\* recorder's stop event has not fired yet
InStopWindow ==
    /\ mounted /\ ~isRecording
    /\ mediaRecorderRef # 0
    /\ recs[mediaRecorderRef].state = "stopping"

\* C19: a request issued between stopRecording's return and the stop event
\* carries the recording that was just stopped, never an uploaded file or an
\* earlier clip.
C19_SubmitAfterStopSendsThatClip ==
    [][(InStopWindow /\ Len(requests') > Len(requests)) =>
        LET sent == requests'[Len(requests')].audio IN
        /\ sent.name = "recording.webm"
        /\ sent.data \in OwnClips(mediaRecorderRef, ChunksPerRecorder)]_vars
\* C20: the request a valid submit issues carries the projectName and the
\* audio payload of that moment, and an outstanding request is never altered
\* afterwards: the requests change only by a new one being issued or by one
\* being answered.
C20_RequestIsSnapshot ==
    [][/\ ValidSubmit =>
            requests' = Append(requests, [project |-> projectName,
                                          audio |-> audioFile])
       /\ Len(requests') <= Len(requests) =>
            \/ requests' = requests
            \/ \E i \in 1..Len(requests) : requests' = RemoveAt(requests, i)
       ]_vars

\* both inputs were changed while the request was in flight, and the
\* outstanding request still carries what was submitted
C20_Witness ==
    /\ mounted /\ Len(requests) = 1
    /\ requests[1].project = "laser_shot_v1" /\ requests[1].audio = WavFile
    /\ projectName = "" /\ audioFile # Null /\ audioFile # WavFile
====
